---- MODULE Spec2Model ----
(***************************************************************************)
(* A model of the fs_blob file system (src/filesys.cc) layered over the    *)
(* toy blob store (src/blob_impl.cc).                                      *)
(*                                                                         *)
(* Sizes are measured in units of sizeof(uint64_t): a uint64_t field, a    *)
(* filename character and a file data byte each take one unit. With that   *)
(* unit sizeof(BlockHeader) = 3 and sizeof(ControlBlock) = 5 as the        *)
(* static_asserts of the source say (3 * 8u, 5 * 8u). MaxBlobSize and      *)
(* MAX_PATH are scaled down so that full blocks, chained directory blocks  *)
(* and chained control blocks are reached in a few steps.                  *)
(***************************************************************************)
EXTENDS Integers, Sequences, FiniteSets, TLC

VARIABLES
  store,     \* BlobStoreImpl::bmap_ : blob id -> contents of the blob
  g_meta,    \* the global META_DISK* g_meta and the struct it points to
  files,     \* the FILE objects handed out by fopen, by handle number
  last,      \* the most recent API call that returned, and what it returned
  lastWrite, \* the client's record of its most recent successful fwrite
  created,   \* the client's record: name -> control block of the handle
             \* its first successful create-mode fopen returned (0: none)
  snap,      \* the client's record of the state at the last ffinalize
  crashed,   \* the process was aborted by undefined behaviour
  allocated, \* the ids get_next_free_id has returned, in order
  heap       \* the FSNode objects no FILE owns that were not destroyed in
             \* order: leaked, or deleted while a RefPtr referred to them

vars == <<store, g_meta, files, last, lastWrite, created, snap, crashed,
          allocated, heap>>

---------------------------------------------------------------------------
(* Bounds of the model.                                                    *)

\* blob.h: MaxBlobSize = 256 * 1024, scaled down.
MaxBlobSize == 7
\* filesys.cc FileEntry::name[MAX_PATH] (main.cc: max filename 512
\* characters), scaled down.
MAX_PATH == 3
\* How many blob ids get_next_free_id may hand out in one run.
MaxAlloc == 6
\* How many FILE objects may be open at once.
MaxOpen == 1

---------------------------------------------------------------------------
(* Program constants.                                                      *)

META_RESERVED == 1
DIR_HEADS == 1024
FNV_32_PRIME_LO == 403          \* 0x0193, low half of FNV_32_PRIME 0x01000193
FNV_32_PRIME_HI == 256          \* 0x0100, high half of FNV_32_PRIME
FNV_INIT_LO == 40389            \* 0x9dc5, low half of FNV_INIT 0x811c9dc5
FNV_INIT_HI == 33052            \* 0x811c, high half of FNV_INIT
SizeofBlockHeader == 3          \* type+flags, prev, next
SizeofControlBlock == 5         \* BlockHeader, directory, start
SizeofMetaDisk == 4             \* magic[16], version, next_free
SizeofCtrlRecord == 1           \* ControlBlock::Record = uint64_t
SizeofDirBlock == SizeofBlockHeader
SizeofFileEntry == MAX_PATH + 1 \* name[MAX_PATH], control_blob
magic == "vdisk2021-00001"

\* static constexpr size_t bytes_per_ctrl_block
bytes_per_ctrl_block ==
  MaxBlobSize * ((MaxBlobSize - SizeofControlBlock) \div SizeofCtrlRecord)

\* The file positions the model explores: one control block past the first.
MaxPos == bytes_per_ctrl_block + MaxBlobSize

---------------------------------------------------------------------------
(* fnv32, on 32-bit words kept as two 16-bit halves <<hi, lo>>.            *)

RECURSIVE XorBits(_, _, _)
XorBits(a, b, n) ==
  IF n = 0 THEN 0
  ELSE (((a % 2) + (b % 2)) % 2) + 2 * XorBits(a \div 2, b \div 2, n - 1)

\* hval ^= byte; hval *= FNV_32_PRIME (mod 2^32)
FnvStep(h, byte) ==
  LET hi == h[1]
      lo == 256 * (h[2] \div 256) + XorBits(h[2] % 256, byte, 8)
      p  == lo * FNV_32_PRIME_LO
  IN  << (hi * FNV_32_PRIME_LO + lo * FNV_32_PRIME_HI + (p \div 65536)) % 65536,
         p % 65536 >>

RECURSIVE FnvFrom(_, _, _)
FnvFrom(h, buf, i) ==
  IF i > Len(buf) THEN h ELSE FnvFrom(FnvStep(h, buf[i]), buf, i + 1)

fnv32(buf) == FnvFrom(<<FNV_INIT_HI, FNV_INIT_LO>>, buf, 1)

\* (fnv32()(name) % DIR_HEADS) + META_RESERVED
name_to_dir_id(name) ==
  LET h == fnv32(name)
  IN  (((h[1] % DIR_HEADS) * (65536 % DIR_HEADS) + (h[2] % DIR_HEADS))
         % DIR_HEADS) + META_RESERVED

---------------------------------------------------------------------------
(* Blobs and the typed blocks laid over them.                              *)

EmptyBlob == [kind |-> "empty"]
MetaBlob(m) ==
  [kind |-> "meta", magic |-> m.magic, version |-> m.version,
   next_free |-> m.next_free]

\* A plausible bug: maybe_init's header is not zeroed, and prev holds what
\* was in memory.
DirHeaderNotZeroed == [kind |-> "dir", prev |-> 1, next |-> 0, entries |-> <<>>]

\* maybe_init for T = DirBlock: T header = {}; header.type = T::btype
DirHeader == [kind |-> "dir", prev |-> 0, next |-> 0, entries |-> <<>>]

\* A plausible bug: maybe_init's header is not zeroed (T header; for
\* T header = {}), and start holds what was in memory.
ControlHeaderNotZeroed ==
  [kind |-> "ctrl", prev |-> 0, next |-> 0, directory |-> 0, start |-> 1,
   blobs |-> <<>>]

\* maybe_init for T = ControlBlock: T header = {}; header.type = T::btype
ControlHeader ==
  [kind |-> "ctrl", prev |-> 0, next |-> 0, directory |-> 0, start |-> 0,
   blobs |-> <<>>]
RawBlob(bytes) ==
  IF bytes = <<>> THEN EmptyBlob ELSE [kind |-> "raw", bytes |-> bytes]

\* blob->Get().size()
BlobSize(b) ==
  CASE b.kind = "empty" -> 0
    [] b.kind = "meta"  -> SizeofMetaDisk
    [] b.kind = "dir"   -> SizeofDirBlock + Len(b.entries) * SizeofFileEntry
    [] b.kind = "ctrl"  -> SizeofControlBlock + Len(b.blobs) * SizeofCtrlRecord
    [] b.kind = "raw"   -> Len(b.bytes)

\* blob->Get() of a data blob: its raw bytes
BlobBytes(b) == IF b.kind = "raw" THEN b.bytes ELSE <<>>

\* BlobStoreImpl::GetBlob: an id not in the map gets a new, empty blob
GetBlob(s, id) == IF id \in DOMAIN s THEN s ELSE s @@ (id :> EmptyBlob)

\* BlobImpl::Put: ErrBadArgs (-2) when the data is larger than MaxBlobSize
PutResult(b) == IF BlobSize(b) > MaxBlobSize THEN -2 ELSE 0
Put(s, id, b) == IF PutResult(b) = 0 THEN [s EXCEPT ![id] = b] ELSE s

\* FSNode::maybe_init for T = DirBlock / ControlBlock
MaybeInit(s, id, header) ==
  IF BlobSize(s[id]) = 0 THEN Put(s, id, header) ELSE s

\* FSNode<T>::FSNode(id): set_blob(id); maybe_init()
NewNode(s, id, header) == MaybeInit(GetBlob(s, id), id, header)

\* A plausible bug: >= for >, so that a record that fills the blob exactly
\* is refused.
AppendFitsOffByOne(b, recsize) == ~(BlobSize(b) >= MaxBlobSize - recsize)

\* FSNode::append_record: false when the record does not fit
AppendFits(b, recsize) == ~(BlobSize(b) > MaxBlobSize - recsize)
AppendEntry(s, id, entry) ==
  IF AppendFits(s[id], SizeofFileEntry)
  THEN Put(s, id, [s[id] EXCEPT !.entries = Append(@, entry)])
  ELSE s
AppendBlobId(s, id, blob_id) ==
  IF AppendFits(s[id], SizeofCtrlRecord)
  THEN Put(s, id, [s[id] EXCEPT !.blobs = Append(@, blob_id)])
  ELSE s

---------------------------------------------------------------------------
(* The directory index.                                                    *)

Min(a, b) == IF a < b THEN a ELSE b

\* A plausible bug: entry.control_blob is set from a stale id, that of the
\* first control block ever allocated.
NewEntryStaleId(name, ctrl_id) ==
  [name |-> SubSeq(name, 1, Min(Len(name), MAX_PATH)),
   control_blob |-> DIR_HEADS + 1]

\* name.copy(entry.name, sizeof(entry.name)): at most MAX_PATH characters,
\* and no terminating NUL when the name fills the array
NewEntry(name, ctrl_id) ==
  [name |-> SubSeq(name, 1, Min(Len(name), MAX_PATH)), control_blob |-> ctrl_id]

\* The little-endian bytes of control_blob up to its first zero byte (every
\* id of the model is below 2^16, so the third byte is zero).
IdBytes(id) ==
  IF id % 256 = 0 THEN <<>>
  ELSE IF (id \div 256) % 256 = 0 THEN <<id % 256>>
  ELSE <<id % 256, (id \div 256) % 256>>

\* entries[ix].name read as a C string by name.compare: a name that fills
\* the array has no NUL, and the read runs on into control_blob.
EntryCStr(e) ==
  IF Len(e.name) < MAX_PATH THEN e.name ELSE e.name \o IdBytes(e.control_blob)

\* DirBlock::find: the control_blob of the first entry whose name compares
\* equal, 0 when there is none
RECURSIVE DirFindFrom(_, _, _)
DirFindFrom(entries, name, ix) ==
  IF ix > Len(entries) THEN 0
  ELSE IF EntryCStr(entries[ix]) = name THEN entries[ix].control_blob
  ELSE DirFindFrom(entries, name, ix + 1)

\* A plausible bug: the loop over the entries starts one entry too far.
DirFindSkipFirst(b, name) == DirFindFrom(b.entries, name, 2)

DirFind(b, name) == DirFindFrom(b.entries, name, 1)

\* A plausible bug: the do/while loop of GetControlBlob left out, so that
\* only the head block of the chain is searched.
ScanChainHeadOnly(s, id, name) == [cb_id |-> DirFind(s[id], name), dir |-> id]

\* GetControlBlob, do { find } while (dir->next()): the id found (0: none)
\* and the block the dir node is left on
RECURSIVE ScanChainFrom(_, _, _)
ScanChainFrom(s, id, name) ==
  LET cb_id == DirFind(s[id], name)
  IN  IF cb_id # 0 THEN [cb_id |-> cb_id, dir |-> id]
      ELSE IF s[id].next = 0 THEN [cb_id |-> 0, dir |-> id]
      ELSE ScanChainFrom(s, s[id].next, name)

ScanChain(s, id, name) == ScanChainFrom(s, id, name)

\* FSNode::set_previous / set_next through WriteHeader
SetPrevious(s, id, prev_id) == Put(s, id, [s[id] EXCEPT !.prev = prev_id])
SetNext(s, id, next_id) == Put(s, id, [s[id] EXCEPT !.next = next_id])

\* A plausible bug: the back link of the new block is not written.
ChainBlockNoPrevious(s, new_id, prev_id, header) ==
  SetNext(NewNode(s, new_id, header), prev_id, new_id)

\* ChainBlock(prev), the new block taking the id new_id that
\* get_next_free_id returned
ChainBlock(s, new_id, prev_id, header) ==
  SetNext(SetPrevious(NewNode(s, new_id, header), new_id, prev_id),
          prev_id, new_id)

\* GetControlBlob(dir, name, action) with g_meta->next_free = nf: the store
\* and the counter afterwards, and the id of the node returned (0: null)
GetControlBlob(s, nf, dir_id, name, action) ==
  LET scan == ScanChain(s, dir_id, name)
  IN
  IF scan.cb_id # 0
  THEN [store |-> NewNode(s, scan.cb_id, ControlHeader), next_free |-> nf,
        cb |-> scan.cb_id]
  ELSE IF action = "FileMustExist"
  THEN [store |-> s, next_free |-> nf, cb |-> 0]
  ELSE
    LET ctrl  == nf
        s1    == NewNode(s, ctrl, ControlHeader)
        s2    == Put(s1, ctrl, [s1[ctrl] EXCEPT !.directory = scan.dir])
        entry == NewEntry(name, ctrl)
    IN
    IF AppendFits(s2[scan.dir], SizeofFileEntry)
    THEN [store |-> AppendEntry(s2, scan.dir, entry), next_free |-> nf + 1,
          cb |-> ctrl]
    ELSE
      LET new_dir == nf + 1
          s3      == ChainBlock(s2, new_dir, scan.dir, DirHeader)
      IN
      IF AppendFits(s3[new_dir], SizeofFileEntry)
      THEN [store |-> AppendEntry(s3, new_dir, entry), next_free |-> nf + 2,
            cb |-> ctrl]
      ELSE [store |-> s3, next_free |-> nf + 2, cb |-> 0]

---------------------------------------------------------------------------
(* The control index and the data path of fwrite.                          *)

\* ControlBlock::find(pos, blob_sz): blobs[pos / MaxBlobSize], 0 when the
\* index is not below the number of records
ControlFind(b, pos) ==
  LET count == (BlobSize(b) - SizeofControlBlock) \div SizeofCtrlRecord
      ix    == pos \div MaxBlobSize
  IN  IF ix >= count THEN 0 ELSE b.blobs[ix + 1]

\* auto next_start = cb->get_ro()->start + 1
NextStart(b) == b.start + 1

\* fwrite, the while (true) loop up to its break. delta is unsigned, so the
\* branch delta < 0 is never taken: every non-zero delta follows next, or
\* chains a new block when next is 0. uaf: cb = ChainBlock(cb) was executed;
\* at_uaf: the store right after the first such assignment. hang: the loop
\* would chain blocks without end (the target lies behind the node).
RECURSIVE Locate(_, _, _, _, _, _)
Locate(s, nf, cb, target, uaf, at_uaf) ==
  IF target = s[cb].start
  THEN [store |-> s, next_free |-> nf, cb |-> cb, uaf |-> uaf,
        at_uaf |-> at_uaf, hang |-> FALSE]
  ELSE IF target < s[cb].start
  THEN [store |-> s, next_free |-> nf, cb |-> cb, uaf |-> uaf,
        at_uaf |-> at_uaf, hang |-> TRUE]
  ELSE IF s[cb].next # 0
  THEN Locate(s, nf, s[cb].next, target, uaf, at_uaf)
  ELSE
    LET next_start == NextStart(s[cb])
        directory  == s[cb].directory
        s1 == ChainBlock(s, nf, cb, ControlHeader)
        s2 == Put(s1, nf, [s1[nf] EXCEPT !.start = next_start,
                                         !.directory = directory])
    IN  Locate(s2, nf + 1, nf, target, TRUE, IF uaf THEN at_uaf ELSE s1)

\* data.resize(offset + count) when shorter (zero filled);
\* memcpy(&data[offset], buffer, count)
Splice(data, offset, buf) ==
  LET n == IF Len(data) < offset + Len(buf) THEN offset + Len(buf) ELSE Len(data)
  IN  [i \in 1..n |->
         IF i > offset /\ i <= offset + Len(buf) THEN buf[i - offset]
         ELSE IF i <= Len(data) THEN data[i] ELSE 0]

\* size_t offset = stream->position % MaxBlobSize
WriteOffset(position) == position % MaxBlobSize

\* fwrite(stream, buffer, count) on FILE f with g_meta->next_free = nf:
\* the return value, the store, the counter and the FILE afterwards
FWrite(s, nf, f, buf) ==
  LET count  == Len(buf)
      offset == WriteOffset(f.position)
      loc    == Locate(s, nf, f.cb, f.position \div bytes_per_ctrl_block,
                       FALSE, s)
      found  == ControlFind(loc.store[loc.cb], offset)
      data_blob_id == IF found = 0 THEN loc.next_free ELSE found
      nf2    == IF found = 0 THEN loc.next_free + 1 ELSE loc.next_free
      s1     == IF found = 0 THEN AppendBlobId(loc.store, loc.cb, data_blob_id)
                ELSE loc.store
      s2     == GetBlob(s1, data_blob_id)
      data   == RawBlob(Splice(BlobBytes(s2[data_blob_id]), offset, buf))
  IN
  IF offset + count > MaxBlobSize
  THEN [rc |-> -1, store |-> s, next_free |-> nf, file |-> f,
        uaf |-> FALSE, at_uaf |-> s, hang |-> FALSE]
  ELSE IF loc.hang
  THEN [rc |-> -1, store |-> loc.store, next_free |-> loc.next_free,
        file |-> [f EXCEPT !.cb = loc.cb],
        uaf |-> loc.uaf, at_uaf |-> loc.at_uaf, hang |-> TRUE]
  ELSE IF PutResult(data) # 0
  THEN [rc |-> -2, store |-> s2, next_free |-> nf2,
        file |-> [f EXCEPT !.cb = loc.cb],
        uaf |-> loc.uaf, at_uaf |-> loc.at_uaf, hang |-> FALSE]
  ELSE [rc |-> count, store |-> Put(s2, data_blob_id, data), next_free |-> nf2,
        file |-> [f EXCEPT !.cb = loc.cb, !.position = @ + count],
        uaf |-> loc.uaf, at_uaf |-> loc.at_uaf, hang |-> FALSE]

---------------------------------------------------------------------------
(* RefCounted and RefPtr (ref_counted.h), as seen by one FSNode object:    *)
(* rc its rc_ field, refs the number of RefPtr objects whose ptr_ is the   *)
(* object, freed whether it was deleted (its destructor releases its blob  *)
(* handle), early whether RefPtrs still referred to it when it was         *)
(* deleted, uaf whether it was used after it was deleted.                  *)

\* AdoptRef(new FSNode<T>(id)): Adopt sets rc_ = 1
AdoptRef(id) ==
  [id |-> id, rc |-> 1, refs |-> 1, freed |-> FALSE, early |-> FALSE,
   uaf |-> FALSE]

\* RefPtr(const RefPtr& r): AddRef
CopyRef(n) == [n EXCEPT !.rc = @ + 1, !.refs = @ + 1]

\* ~RefPtr: if (ptr_ && (ptr_->Release() == 0)) delete ptr_. On an object
\* that was deleted already, Release writes to freed memory.
DropRef(n) ==
  IF n.freed THEN [n EXCEPT !.refs = @ - 1, !.uaf = TRUE]
  ELSE [n EXCEPT !.rc = @ - 1, !.refs = @ - 1, !.freed = (n.rc - 1 = 0),
                 !.early = (n.rc - 1 = 0 /\ n.refs - 1 > 0)]

\* operator=(const RefPtr& r), for the object the pointer referred to:
\* T* old = ptr_; ptr_ = r.ptr_; if (old && old->Release()) delete old
AssignOver(n) ==
  [n EXCEPT !.rc = @ - 1, !.refs = @ - 1, !.freed = (n.rc - 1 # 0),
            !.early = (n.rc - 1 # 0 /\ n.refs - 1 > 0)]

\* Where the by-value RefPtr parameter of ChainBlock is destroyed: when the
\* function returns, or at the end of the full-expression that holds the
\* call (implementation-defined in C++)
ParamDestruction == {"callee", "caller"}

\* cb = ChainBlock(cb), for the node cb referred to (the FILE's node, on
\* blob id): copied into the parameter, then assigned over and the
\* parameter destroyed, in the order the implementation chooses
ChainedOver(id, abi) ==
  LET param == CopyRef(AdoptRef(id))
  IN  IF abi = "callee" THEN AssignOver(DropRef(param))
      ELSE DropRef(AssignOver(param))

\* A node object that was not destroyed in order
Lost(n) == n.early \/ n.uaf \/ (n.refs = 0 /\ ~n.freed)

\* The FSNode a FILE owns: adopted, then moved into the FILE
FileNode(f) == AdoptRef(f.cb)

\* fclose, delete stream: the FILE's RefPtr is destroyed
CloseNodes(f) == { DropRef(FileNode(f)) }

\* GetControlBlob's walk, counted: how many dir->next() calls returned true
RECURSIVE ScanHops(_, _, _)
ScanHops(s, id, name) ==
  IF DirFind(s[id], name) # 0 \/ s[id].next = 0 THEN 0
  ELSE 1 + ScanHops(s, s[id].next, name)

\* fwrite's walk, counted: the block where cb->next() stops returning true
\* (cb) and how many times it returned true (hops)
RECURSIVE Walk(_, _, _)
Walk(s, cb, target) ==
  IF target <= s[cb].start \/ s[cb].next = 0 THEN [cb |-> cb, hops |-> 0]
  ELSE LET w == Walk(s, s[cb].next, target)
       IN  [cb |-> w.cb, hops |-> w.hops + 1]

\* How many blocks fwrite chains after that walk
Chained(s, cb, target) ==
  LET w == Walk(s, cb, target)
  IN  IF target > s[w.cb].start THEN target - s[w.cb].start ELSE 0

\* The node objects fopen has handled when it returns, the one the FILE
\* owns left out: the dir node (moved into GetControlBlob's parameter,
\* copied for ChainBlock when a block is chained), the chained dir node,
\* and the control node when GetControlBlob returns 0 after creating it
OpenNodes(dir_id, nf, r) ==
  (IF r.next_free = nf + 2
   THEN { DropRef(DropRef(CopyRef(AdoptRef(dir_id)))),
          DropRef(AdoptRef(nf + 1)) }
   ELSE { DropRef(AdoptRef(dir_id)) })
  \cup (IF r.cb = 0 /\ r.next_free > nf THEN { DropRef(AdoptRef(nf)) } ELSE {})

\* The GetBlob calls of fopen: one per node constructed and one per next()
OpenGot(s, dir_id, name, nf, r) ==
  1 + ScanHops(s, dir_id, name)
    + (IF r.cb # 0 \/ r.next_free > nf THEN 1 ELSE 0)
    + (IF r.next_free = nf + 2 THEN 1 ELSE 0)

\* The Release calls of fopen: one per next() and one per node destroyed
OpenReleased(s, dir_id, name, nf, r) ==
  ScanHops(s, dir_id, name)
    + Cardinality({n \in OpenNodes(dir_id, nf, r) : n.freed})

\* The node objects fwrite has assigned over when it returns
WriteNodes(s, nf, f, abi) ==
  LET target == f.position \div bytes_per_ctrl_block
      tail   == Walk(s, f.cb, target).cb
  IN  { ChainedOver(IF k = 0 THEN tail ELSE nf + k - 1, abi) :
          k \in 0..(Chained(s, f.cb, target) - 1) }

\* The GetBlob calls of an fwrite that got past its first check: one per
\* next(), one per block chained, one for the data blob
WriteGot(s, f) ==
  LET target == f.position \div bytes_per_ctrl_block
  IN  Walk(s, f.cb, target).hops + Chained(s, f.cb, target) + 1

\* Its Release calls: one per next(), one per node deleted. The handle of
\* the data blob is not released.
WriteReleased(s, nf, f, abi) ==
  LET target == f.position \div bytes_per_ctrl_block
  IN  Walk(s, f.cb, target).hops
        + Cardinality({n \in WriteNodes(s, nf, f, abi) : n.freed})

---------------------------------------------------------------------------
(* The inputs the client draws its calls from.                             *)

\* "t", "iu", "s3" hash to directory head 420, "p" to 1008; "abfu" hashes
\* to 420 too and is MAX_PATH characters or longer.
Names == { <<116>>, <<105, 117>>, <<115, 51>>, <<112>>, <<97, 98, 102, 117>> }

\* const char* mode, without its terminating NUL
Modes == { <<"r">>, <<"w">>, <<"a">>, <<"r", "w">> }

\* mode[i]: reading the terminator gives NUL
ModeChar(mode, i) == IF i < Len(mode) THEN mode[i + 1] ELSE "NUL"

Fill(byte, n) == [i \in 1..n |-> byte]

\* The byte counts handed to fwrite and fread
Counts == {3, MaxBlobSize}

\* The buffers handed to fwrite: count is the buffer's length
Buffers == { Fill(1, 3), Fill(2, MaxBlobSize) }


\* name_to_dir_id of every name the client uses, computed once
DirIdOf == [n \in Names |-> name_to_dir_id(n)]

Handles == 1..MaxOpen
NoFile == [open |-> FALSE, position |-> 0, cb |-> 0]
NoWrite == [file |-> 0, pos |-> 0, buf |-> <<>>]
NoSnap == [taken |-> FALSE, next_free |-> 0, store |-> <<>>]
NullMeta == [ptr |-> "null", magic |-> "", version |-> 0, next_free |-> 0]
DeletedMeta == [NullMeta EXCEPT !.ptr = "deleted"]

\* One returned API call: h the handle passed (0: none), pos the handle's
\* position when the call was made, rc the value returned (for fopen the
\* handle number, 0 for a null FILE*), out the bytes stored into the
\* caller's buffer
Call(op, name, mode, h, pos, buf, count, rc) ==
  [op |-> op, name |-> name, mode |-> mode, h |-> h, pos |-> pos,
   buf |-> buf, count |-> count, rc |-> rc, out |-> <<>>,
   got |-> 0, released |-> 0]

\* The call with its blob-handle traffic: got the number of GetBlob calls it
\* made, released the number of Blob::Release calls
Counted(call, got, released) ==
  [call EXCEPT !.got = got, !.released = released]

\* The ids get_next_free_id returns while next_free goes from nf to nf2
IdsFrom(nf, nf2) == [i \in 1..(nf2 - nf) |-> nf + i - 1]

\* The first control block of the chain that holds block id
RECURSIVE HeadOf(_, _)
HeadOf(s, id) == IF s[id].prev = 0 THEN id ELSE HeadOf(s, s[id].prev)

Running == g_meta.ptr = "live" /\ ~crashed
LastId == DIR_HEADS + MaxAlloc

---------------------------------------------------------------------------
(* The API.                                                                *)

Init ==
  /\ store = <<>>
  /\ g_meta = NullMeta
  /\ files = [h \in Handles |-> NoFile]
  /\ last = Call("none", <<>>, <<>>, 0, 0, <<>>, 0, 0)
  /\ lastWrite = NoWrite
  /\ created = [n \in Names |-> 0]
  /\ snap = NoSnap
  /\ crashed = FALSE
  /\ allocated = <<>>
  /\ heap = {}

\* finitialize's validation of an existing meta blob (the asserts)
MetaValid(actual) ==
  /\ actual.magic = magic
  /\ actual.version = 1
  /\ actual.next_free > DIR_HEADS

\* A plausible bug: <= for <, so that a saved meta blob is taken for a new disk.
NeedsInitOffByOne(blob) == BlobSize(blob) <= SizeofMetaDisk

\* finitialize: blob->Get().size() < sizeof(META_DISK), "Init disk"
NeedsInit(blob) == BlobSize(blob) < SizeofMetaDisk

\* The META_DISK finitialize leaves in g_meta, given blob 0
LoadMeta(blob) ==
  IF NeedsInit(blob)
  THEN [ptr |-> "live", magic |-> magic, version |-> 1,
        next_free |-> DIR_HEADS + 1]
  ELSE [ptr |-> "live", magic |-> blob.magic, version |-> blob.version,
        next_free |-> blob.next_free]

finitialize ==
  /\ ~crashed
  /\ g_meta.ptr # "live"
  /\ LET s1   == GetBlob(store, 0)
         meta == LoadMeta(s1[0])
     IN  IF NeedsInit(s1[0])
         THEN /\ store' = Put(s1, 0, MetaBlob(meta))
              /\ g_meta' = meta
              /\ crashed' = FALSE
         ELSE /\ store' = s1
              /\ g_meta' = meta
              /\ crashed' = ~MetaValid(s1[0])
  /\ last' = Counted(Call("finitialize", <<>>, <<>>, 0, 0, <<>>, 0, 0), 1, 1)
  /\ lastWrite' = NoWrite
  /\ UNCHANGED <<files, created, snap, allocated, heap>>

\* A plausible bug: ffinalize saves the meta block as finitialize first
\* made it, without the counter's current value.
SavedMetaWithoutCounter(m) == MetaBlob([m EXCEPT !.next_free = DIR_HEADS + 1])

\* The blob ffinalize puts into blob 0
SavedMeta(m) == MetaBlob(m)

ffinalize ==
  /\ Running
  /\ store' = Put(GetBlob(store, 0), 0, SavedMeta(g_meta))
  /\ g_meta' = DeletedMeta
  /\ snap' = [taken |-> TRUE, next_free |-> g_meta.next_free, store |-> store]
  /\ last' = Counted(Call("ffinalize", <<>>, <<>>, 0, 0, <<>>, 0, 0), 1, 1)
  /\ lastWrite' = NoWrite
  /\ UNCHANGED <<files, created, crashed, allocated, heap>>

\* A plausible bug: every mode taken for a create mode.
ModeActionAlwaysCreate(mode) == "FileCreate"

\* CbAction action = ((mode[0] == 'w') || (mode[1] == 'w')) ? ...
ModeAction(mode) ==
  IF ModeChar(mode, 0) = "w" \/ ModeChar(mode, 1) = "w"
  THEN "FileCreate" ELSE "FileMustExist"

\* The handle number a new FILE gets: the lowest one not in use
FreeHandle == CHOOSE h \in Handles :
                /\ ~files[h].open
                /\ \A k \in Handles : ~files[k].open => h <= k

\* fopen's FILE and return value, once GetControlBlob has returned r
OpenResult(name, mode, r, h) ==
  /\ store' = r.store
  /\ g_meta' = [g_meta EXCEPT !.next_free = r.next_free]
  /\ files' = IF r.cb = 0 THEN files
              ELSE [files EXCEPT ![h] =
                      [open |-> TRUE, position |-> 0, cb |-> r.cb]]
  /\ last' = Counted(Call("fopen", name, mode, 0, 0, <<>>, 0,
                          IF r.cb = 0 THEN 0 ELSE h),
                     OpenGot(NewNode(store, DirIdOf[name], DirHeader),
                             DirIdOf[name], name, g_meta.next_free, r),
                     OpenReleased(NewNode(store, DirIdOf[name], DirHeader),
                                  DirIdOf[name], name, g_meta.next_free, r))
  /\ allocated' = allocated \o IdsFrom(g_meta.next_free, r.next_free)
  /\ heap' = heap \cup {n \in OpenNodes(DirIdOf[name], g_meta.next_free, r) :
                          Lost(n)}
  /\ created' = IF r.cb # 0 /\ ModeAction(mode) = "FileCreate"
                   /\ created[name] = 0
                THEN [created EXCEPT ![name] = r.cb] ELSE created

fopen(name, mode) ==
  /\ Running
  /\ \E h \in Handles : ~files[h].open
  /\ ( /\ ModeAction(mode) = "FileCreate"
       /\ ScanChain(NewNode(store, DirIdOf[name], DirHeader), DirIdOf[name],
                    name).cb_id = 0 )
     => g_meta.next_free + 1 <= LastId
  /\ OpenResult(name, mode,
                GetControlBlob(NewNode(store, DirIdOf[name], DirHeader),
                               g_meta.next_free, DirIdOf[name], name,
                               ModeAction(mode)),
                FreeHandle)
  /\ snap' = NoSnap
  /\ UNCHANGED <<lastWrite, crashed>>

fclose(h) ==
  /\ Running
  /\ files[h].open
  /\ files' = [files EXCEPT ![h] = NoFile]
  /\ last' = Counted(Call("fclose", <<>>, <<>>, h, files[h].position, <<>>,
                          0, 0),
                     0, Cardinality({n \in CloseNodes(files[h]) : n.freed}))
  /\ heap' = heap \cup {n \in CloseNodes(files[h]) : Lost(n)}
  /\ snap' = NoSnap
  /\ UNCHANGED <<store, g_meta, lastWrite, created, crashed, allocated>>

fread(h, count) ==
  /\ Running
  /\ files[h].open
  /\ last' = Call("fread", <<>>, <<>>, h, files[h].position, <<>>, count, -1)
  /\ snap' = NoSnap
  /\ UNCHANGED <<store, g_meta, files, lastWrite, created, crashed,
                 allocated, heap>>

\* fwrite returning to its caller with the outcome w, in a build that
\* destroys ChainBlock's parameter as abi says
WriteReturns(h, buf, w, abi) ==
  /\ ~w.hang
  /\ store' = w.store
  /\ g_meta' = [g_meta EXCEPT !.next_free = w.next_free]
  /\ files' = [files EXCEPT ![h] = w.file]
  /\ last' = IF w.rc = -1
             THEN Call("fwrite", <<>>, <<>>, h, files[h].position, buf,
                       Len(buf), w.rc)
             ELSE Counted(Call("fwrite", <<>>, <<>>, h, files[h].position,
                               buf, Len(buf), w.rc),
                          WriteGot(store, files[h]),
                          WriteReleased(store, g_meta.next_free, files[h],
                                        abi))
  /\ allocated' = allocated \o IdsFrom(g_meta.next_free, w.next_free)
  /\ heap' = IF w.rc = -1 THEN heap
             ELSE heap \cup {n \in WriteNodes(store, g_meta.next_free,
                                               files[h], abi) : Lost(n)}
  /\ lastWrite' = IF w.rc = Len(buf)
                  THEN [file |-> HeadOf(w.store, w.file.cb),
                        pos |-> files[h].position, buf |-> buf]
                  ELSE NoWrite

fwrite(h, buf) ==
  /\ Running
  /\ files[h].open
  /\ files[h].position + Len(buf) <= MaxPos
  /\ g_meta.next_free + 1 <= LastId
  /\ \E abi \in ParamDestruction :
       WriteReturns(h, buf, FWrite(store, g_meta.next_free, files[h], buf),
                    abi)
  /\ snap' = NoSnap
  /\ UNCHANGED <<created, crashed>>

\* fwrite with the outcome w ended where cb = ChainBlock(cb) was executed:
\* the chained block took the id get_next_free_id returned, stream->cb was
\* already set to it, its start and directory are not written yet
WriteAborts(h, w) ==
  /\ w.uaf \/ w.hang
  /\ store' = w.at_uaf
  /\ g_meta' = IF w.uaf THEN [g_meta EXCEPT !.next_free = @ + 1] ELSE g_meta
  /\ files' = IF w.uaf THEN [files EXCEPT ![h].cb = g_meta.next_free]
              ELSE files
  /\ allocated' = IF w.uaf THEN Append(allocated, g_meta.next_free)
                  ELSE allocated
  /\ heap' = IF w.uaf
             THEN heap \cup {ChainedOver(Walk(store, files[h].cb,
                                  files[h].position \div bytes_per_ctrl_block).cb,
                                  "caller")}
             ELSE heap

\* fwrite ended by the undefined behaviour of cb = ChainBlock(cb): the
\* assignment deletes the old node while the by-value argument of
\* ChainBlock still refers to it, and the argument's destructor then
\* releases freed memory. A build may run on (fwrite above) or abort here.
\* A loop that never reaches its target never returns either.
fwrite_abort(h, buf) ==
  /\ Running
  /\ files[h].open
  /\ files[h].position + Len(buf) <= MaxPos
  /\ g_meta.next_free + 1 <= LastId
  /\ WriteAborts(h, FWrite(store, g_meta.next_free, files[h], buf))
  /\ crashed' = TRUE
  /\ snap' = NoSnap
  /\ UNCHANGED <<last, lastWrite, created>>

ftell(h) ==
  /\ Running
  /\ files[h].open
  /\ last' = Call("ftell", <<>>, <<>>, h, files[h].position, <<>>, 0, -1)
  /\ snap' = NoSnap
  /\ UNCHANGED <<store, g_meta, files, lastWrite, created, crashed,
                 allocated, heap>>

fseek(h, offset, origin) ==
  /\ Running
  /\ files[h].open
  /\ last' = Call("fseek", <<>>, <<>>, h, files[h].position, <<>>, offset, -1)
  /\ snap' = NoSnap
  /\ UNCHANGED <<store, g_meta, files, lastWrite, created, crashed,
                 allocated, heap>>

fremove(name) ==
  /\ Running
  /\ last' = Call("fremove", name, <<>>, 0, 0, <<>>, 0, -1)
  /\ lastWrite' = NoWrite
  /\ snap' = NoSnap
  /\ UNCHANGED <<store, g_meta, files, created, crashed, allocated, heap>>

\* A client that creates a file, writes it and carries it over ffinalize /
\* finitialize pairs.
DataNames == { <<116>> }
DataModes == { <<"r">>, <<"r", "w">> }

Next ==
  \/ finitialize
  \/ ffinalize
  \/ \E name \in DataNames, mode \in DataModes : fopen(name, mode)
  \/ \E h \in Handles : fclose(h)
  \/ \E h \in Handles, buf \in Buffers : fwrite(h, buf)
  \/ \E h \in Handles, buf \in Buffers : fwrite_abort(h, buf)

Spec == Init /\ [][Next]_vars

\* The client of main.cc, which also reads back and asks for the position.
NextApi ==
  \/ finitialize
  \/ ffinalize
  \/ \E name \in DataNames, mode \in DataModes : fopen(name, mode)
  \/ \E h \in Handles : fclose(h)
  \/ \E h \in Handles, count \in Counts : fread(h, count)
  \/ \E h \in Handles, buf \in Buffers : fwrite(h, buf)
  \/ \E h \in Handles, buf \in Buffers : fwrite_abort(h, buf)
  \/ \E h \in Handles : ftell(h)
  \/ \E h \in Handles : fseek(h, 0, 0)

SpecApi == Init /\ [][NextApi]_vars

\* A client that only opens, closes and removes files, under every name
\* and mode.
NextDir ==
  \/ finitialize
  \/ \E name \in Names, mode \in Modes : fopen(name, mode)
  \/ \E h \in Handles : fclose(h)
  \/ \E name \in Names : fremove(name)

SpecDir == Init /\ [][NextDir]_vars

\* A client that creates two files of one bucket and writes them a whole
\* blob at a time, so that a directory chain and a control chain both grow.
ChainNames == { <<116>>, <<105, 117>> }

NextChain ==
  \/ finitialize
  \/ \E name \in ChainNames : fopen(name, <<"w">>)
  \/ \E h \in Handles : fclose(h)
  \/ \E h \in Handles : fwrite(h, Fill(2, MaxBlobSize))
  \/ \E h \in Handles : fwrite_abort(h, Fill(2, MaxBlobSize))

SpecChain == Init /\ [][NextChain]_vars

---------------------------------------------------------------------------
(* What the claims speak of.                                               *)

\* The ids of the blocks of the chain that starts at id, following next
RECURSIVE ChainFrom(_, _)
ChainFrom(s, id) ==
  IF id = 0 \/ id \notin DOMAIN s THEN <<>>
  ELSE <<id>> \o ChainFrom(s, s[id].next)

\* The FileEntry records of the directory chain of name, block by block
DirEntries(s, name) ==
  LET chain == ChainFrom(s, DirIdOf[name])
  IN  [k \in 1..Len(chain) |-> s[chain[k]].entries]

\* name has a FileEntry in its directory chain: some entry there holds the
\* characters fopen would store for it
HasEntry(s, name) ==
  \E k \in DOMAIN DirEntries(s, name) :
    \E i \in DOMAIN DirEntries(s, name)[k] :
      DirEntries(s, name)[k][i].name = NewEntry(name, 0).name

\* Every FileEntry of every directory block of the store, with its place
AllEntries(s) ==
  UNION { { <<id, i, s[id].entries[i]>> : i \in DOMAIN s[id].entries } :
          id \in {d \in DOMAIN s : s[d].kind = "dir"} }

\* The data bytes behind the blob ids of one control block
BlockData(s, cb) ==
  [j \in DOMAIN s[cb].blobs |->
     IF s[cb].blobs[j] \in DOMAIN s THEN BlobBytes(s[s[cb].blobs[j]]) ELSE <<>>]

\* What a client can get at through name: the control chain fopen finds
\* (ids and blocks) and the data bytes the chain refers to
FileView(s, name) ==
  LET head  == DirIdOf[name]
      cb    == IF head \in DOMAIN s /\ s[head].kind = "dir"
               THEN ScanChain(s, head, name).cb_id ELSE 0
      chain == ChainFrom(s, cb)
  IN  [cb    |-> cb,
       chain |-> [k \in 1..Len(chain) |-> <<chain[k], s[chain[k]]>>],
       data  |-> [k \in 1..Len(chain) |-> BlockData(s, chain[k])]]

\* The control block of a file's chain whose start is k (0: none)
BlockWithStart(s, cb, k) ==
  LET chain == ChainFrom(s, HeadOf(s, cb))
      hits  == {i \in 1..Len(chain) : s[chain[i]].start = k}
  IN  IF hits = {} THEN 0 ELSE chain[CHOOSE i \in hits : TRUE]

\* The blobs of the store that hold a typed block
Blocks(s) == {id \in DOMAIN s : s[id].kind \in {"dir", "ctrl"}}

\* The control blocks the FileEntry records of the store refer to
FirstControlBlocks(s) == {e[3].control_blob : e \in AllEntries(s)}

\* Every FSNode object of the program's heap that the model keeps: the
\* nodes open FILEs own and the ones that were not destroyed in order
Nodes(fs, hp) == hp \cup {FileNode(fs[h]) : h \in {k \in Handles : fs[k].open}}

\* The number of open FILEs, each of which owns one node and, through it,
\* one blob handle
OpenCount(fs) == Cardinality({h \in Handles : fs[h].open})

\* The directory heads the store holds a blob for
Heads(s) == {d \in DOMAIN s : d >= META_RESERVED /\ d <= DIR_HEADS}

\* Blob d is in the store and holds bytes
NonEmpty(s, d) == d \in DOMAIN s /\ BlobSize(s[d]) > 0

\* No open FILE caches a control block ahead of its position: position
\* starts at 0 on the first block and only fwrite moves it, forward, and
\* fwrite leaves cb on the block it wrote through. (fseek, which could move
\* the position back, changes nothing.)
CachedBlockNotAhead ==
  \A h \in Handles :
    (files[h].open /\ ~crashed)
      => store[files[h].cb].start <= files[h].position \div bytes_per_ctrl_block

\* Some open FILE has written its way onto the second control block
CachedBlockMoved ==
  \E h \in Handles : files[h].open /\ store[files[h].cb].start > 0

\* The ids reachable from the FileEntry that refers to control block cb:
\* the blocks of its control chain and the data blobs they list
FileIds(s, cb) ==
  {ChainFrom(s, cb)[k] : k \in DOMAIN ChainFrom(s, cb)}
    \cup UNION { {s[ChainFrom(s, cb)[k]].blobs[j] :
                    j \in DOMAIN s[ChainFrom(s, cb)[k]].blobs} :
                 k \in DOMAIN ChainFrom(s, cb) }

\* The control chain behind cb, block by block, with the data bytes
FileContents(s, cb) ==
  [k \in DOMAIN ChainFrom(s, cb) |->
     <<ChainFrom(s, cb)[k], s[ChainFrom(s, cb)[k]],
       BlockData(s, ChainFrom(s, cb)[k])>>]

\* last is a call that returned in this step
Returned(op) == last' # last /\ last'.op = op

---------------------------------------------------------------------------
(* The claims.                                                             *)

\* C1: bytes written with fwrite are returned by a later fread of the same
\* range: after fwrite(h, buf, n) returned n, an fread of n bytes at the
\* write's start offset, on a handle of the same file (the same handle
\* after fseek, or a fresh one after fclose and fopen), returns n and
\* stores exactly buf.
C1_ReadReturnsWritten ==
  ( /\ last.op = "fread"
    /\ lastWrite.file # 0
    /\ HeadOf(store, files[last.h].cb) = lastWrite.file
    /\ last.pos = lastWrite.pos
    /\ last.count = Len(lastWrite.buf) )
  => (last.rc = last.count /\ last.out = lastWrite.buf)

\* C2: after fwrite(h, _, n) returned w >= 0, ftell(h) returns the position
\* h had before the fwrite plus w.
C2_TellAfterWrite ==
  [][ ( /\ last.op = "fwrite"
        /\ last.rc >= 0
        /\ Returned("ftell")
        /\ last'.h = last.h )
      => last'.rc = last.pos + last.rc ]_vars

\* C3: once a create-mode fopen of a name s, 1 <= Len(s) < MAX_PATH, has
\* returned a handle, every later fopen(s, "r") returns a non-null handle
\* on that same control block, however many other files were created in
\* the bucket of s and however long its directory chain has grown.
C3_CreatedStaysFound ==
  ( /\ last.op = "fopen"
    /\ last.mode = <<"r">>
    /\ Len(last.name) >= 1
    /\ Len(last.name) < MAX_PATH
    /\ created[last.name] # 0 )
  => ( /\ last.rc # 0
       /\ files[last.rc].open
       /\ files[last.rc].cb = created[last.name] )

\* The directory chain of the name just opened has three blocks or more,
\* the name's entry sits in the first of them, it was opened with "r" and
\* found.
C3_Witness ==
  /\ last.op = "fopen"
  /\ last.mode = <<"r">>
  /\ Len(last.name) < MAX_PATH
  /\ created[last.name] # 0
  /\ last.rc # 0
  /\ Len(DirEntries(store, last.name)) >= 3
  /\ \E i \in DOMAIN DirEntries(store, last.name)[1] :
       DirEntries(store, last.name)[1][i].name = last.name

\* C4: fopen(name, "r") of a name that has no FileEntry in its directory
\* chain returns null, leaves next_free as it was and adds no FileEntry to
\* any directory block.
C4_MissingNotCreated ==
  [][ ( /\ Returned("fopen")
        /\ last'.mode = <<"r">>
        /\ ~HasEntry(store, last'.name) )
      => ( /\ last'.rc = 0
           /\ g_meta'.next_free = g_meta.next_free
           /\ AllEntries(store') = AllEntries(store) ) ]_vars

\* An fopen(name, "r") returned null for a name that has no entry, in a
\* bucket whose chain holds entries of other names in two blocks or more.
C4_Witness ==
  /\ last.op = "fopen"
  /\ last.mode = <<"r">>
  /\ last.rc = 0
  /\ ~HasEntry(store, last.name)
  /\ Len(DirEntries(store, last.name)) >= 2
  /\ \A k \in DOMAIN DirEntries(store, last.name) :
       DirEntries(store, last.name)[k] # <<>>

\* C5: an fwrite whose byte range crosses a MaxBlobSize boundary is split
\* into per-blob chunks, writes all count bytes and returns count.
C5_SplitWriteAccepted ==
  ( /\ last.op = "fwrite"
    /\ (last.pos % MaxBlobSize) + last.count > MaxBlobSize )
  => last.rc = last.count

\* C6: ffinalize followed by finitialize restores the state that held
\* before ffinalize: next_free has the same value, and every file is found
\* with the same control chain and the same data bytes.
C6_FinalizeInitRestores ==
  (last.op = "finitialize" /\ snap.taken)
  => ( /\ g_meta.next_free = snap.next_free
       /\ \A name \in Names :
            FileView(store, name) = FileView(snap.store, name) )

\* finitialize has run after an ffinalize that was called with ids
\* allocated and file data written.
C6_Witness ==
  /\ last.op = "finitialize"
  /\ snap.taken
  /\ snap.next_free > DIR_HEADS + 1
  /\ \E name \in Names :
       /\ FileView(store, name).cb # 0
       /\ \E k \in DOMAIN FileView(store, name).data :
            \E j \in DOMAIN FileView(store, name).data[k] :
              FileView(store, name).data[k][j] # <<>>

\* C7: fopen(name, "a") of a name that has no FileEntry creates the file
\* and returns a non-null handle.
C7_AppendCreates ==
  [][ ( /\ Returned("fopen")
        /\ last'.mode = <<"a">>
        /\ ~HasEntry(store, last'.name) )
      => (last'.rc # 0 /\ HasEntry(store', last'.name)) ]_vars

\* C8: fremove(name) of an existing file returns 0 and the name has no
\* FileEntry afterwards (so that fopen(name, "r") returns null until the
\* name is created again).
C8_RemoveRemoves ==
  [][ (Returned("fremove") /\ HasEntry(store, last'.name))
      => (last'.rc = 0 /\ ~HasEntry(store', last'.name)) ]_vars

\* C9: fopen with a name of MAX_PATH characters or more is rejected in
\* every mode: it returns null, allocates no blob id and appends no
\* FileEntry.
C9_LongNameRejected ==
  [][ (Returned("fopen") /\ Len(last'.name) >= MAX_PATH)
      => ( /\ last'.rc = 0
           /\ g_meta'.next_free = g_meta.next_free
           /\ AllEntries(store') = AllEntries(store) ) ]_vars

\* C10: a successful fwrite at position p stores its bytes in the data blob
\* whose id is at index (p mod bytes_per_ctrl_block) / MaxBlobSize of the
\* blob-id array of the control block with start = p / bytes_per_ctrl_block.
C10_WriteGoesToSlot ==
  (last.op = "fwrite" /\ last.rc > 0)
  => LET p      == last.pos
         cb     == BlockWithStart(store, files[last.h].cb,
                                  p \div bytes_per_ctrl_block)
         slot   == (p % bytes_per_ctrl_block) \div MaxBlobSize
         within == p % MaxBlobSize
     IN  /\ cb # 0
         /\ slot < Len(store[cb].blobs)
         /\ LET bytes == BlobBytes(store[store[cb].blobs[slot + 1]])
            IN  /\ Len(bytes) >= within + last.rc
                /\ SubSeq(bytes, within + 1, within + last.rc) = last.buf

\* C11: in every reachable state no two FileEntry records, in whatever
\* directory blocks of whatever chains, hold the same name of fewer than
\* MAX_PATH characters.
C11_NameInOneEntry ==
  \A x, y \in AllEntries(store) :
    (Len(x[3].name) < MAX_PATH /\ x[3].name = y[3].name)
      => (x[1] = y[1] /\ x[2] = y[2])

\* A create-mode fopen of a short name has returned a handle on the control
\* block the name was first created with; the name's entry sits in the
\* second block of its chain or later and a block chained after it holds
\* the entry of a name created later: the scan went past the head, found
\* the entry and appended nothing.
C11_Witness ==
  /\ last.op = "fopen"
  /\ ModeAction(last.mode) = "FileCreate"
  /\ Len(last.name) < MAX_PATH
  /\ last.rc # 0
  /\ files[last.rc].cb = created[last.name]
  /\ \E k \in DOMAIN DirEntries(store, last.name) :
       /\ k >= 2
       /\ k < Len(DirEntries(store, last.name))
       /\ \E i \in DOMAIN DirEntries(store, last.name)[k] :
            DirEntries(store, last.name)[k][i].name = last.name
  /\ \A k \in DOMAIN DirEntries(store, last.name) :
       DirEntries(store, last.name)[k] # <<>>

\* C12: every directory chain and every control chain is a consistent
\* doubly linked list: a block's next is a block of the same type whose
\* prev is that block, and conversely; the directory heads and the control
\* blocks FileEntry records refer to have prev = 0; following next leads to
\* a tail with next = 0 (next links go to blocks allocated later).
C12_ChainsDoublyLinked ==
  \A x \in Blocks(store) :
    /\ store[x].next # 0 =>
         /\ store[x].next \in Blocks(store)
         /\ store[x].next > x
         /\ store[store[x].next].kind = store[x].kind
         /\ store[store[x].next].prev = x
    /\ store[x].prev # 0 =>
         /\ store[x].prev \in Blocks(store)
         /\ store[store[x].prev].kind = store[x].kind
         /\ store[store[x].prev].next = x
    /\ (x \in META_RESERVED..DIR_HEADS \/ x \in FirstControlBlocks(store))
         => store[x].prev = 0

\* An fwrite has returned after chaining a control block, in a store where
\* a directory chain has two blocks as well.
C12_Witness ==
  /\ last.op = "fwrite"
  /\ last.rc > 0
  /\ store[files[last.h].cb].prev # 0
  /\ \E d \in Heads(store) : store[d].next # 0

\* C13: in every state of a running process (one that no undefined
\* behaviour has aborted inside a call), the control block at index k of a
\* file's control chain, counting from 0 at the block the FileEntry refers
\* to and following next, has start = k.
C13_StartIsChainIndex ==
  ~crashed =>
    \A c \in FirstControlBlocks(store) :
      \A k \in DOMAIN ChainFrom(store, c) :
        store[ChainFrom(store, c)[k]].start = k - 1

\* An fwrite has returned after chaining a second control block to a file.
C13_Witness ==
  /\ last.op = "fwrite"
  /\ last.rc > 0
  /\ \E c \in FirstControlBlocks(store) :
       /\ Len(ChainFrom(store, c)) >= 2
       /\ ChainFrom(store, c)[2] = files[last.h].cb
       /\ store[files[last.h].cb].blobs # <<>>

\* C14: every id get_next_free_id has returned is at least DIR_HEADS + 1
\* (so neither the meta id 0 nor a directory head), differs from every id
\* it returned before, also across ffinalize / finitialize pairs, and is
\* at most next_free - 1, for the counter in memory and for the counter
\* ffinalize saved.
C14_IdsFresh ==
  /\ \A i \in DOMAIN allocated : allocated[i] >= DIR_HEADS + 1
  /\ \A i, j \in DOMAIN allocated : i # j => allocated[i] # allocated[j]
  /\ g_meta.ptr = "live" =>
       \A i \in DOMAIN allocated : allocated[i] <= g_meta.next_free - 1
  /\ g_meta.ptr = "deleted" =>
       \A i \in DOMAIN allocated : allocated[i] <= store[0].next_free - 1

\* Ids were returned before an ffinalize and after the finitialize that
\* followed it: the meta blob holds the counter that ffinalize saved, above
\* its initial value, and the counter in memory has moved on.
C14_Witness ==
  /\ g_meta.ptr = "live"
  /\ store[0].next_free > DIR_HEADS + 1
  /\ g_meta.next_free > store[0].next_free
  /\ Len(allocated) = g_meta.next_free - (DIR_HEADS + 1)

\* C15: for every file, the directory field of every block of its control
\* chain is the id of the directory block that holds the file's FileEntry.
C15_DirectoryHoldsEntry ==
  \A e \in AllEntries(store) :
    \A k \in DOMAIN ChainFrom(store, e[3].control_blob) :
      store[ChainFrom(store, e[3].control_blob)[k]].directory = e[1]

\* C16: append_record on a block of size s with a record of size r fails
\* exactly when s + r > MaxBlobSize and then leaves the blob as it was;
\* otherwise the blob becomes its old records followed by the whole record,
\* of size s + r <= MaxBlobSize. Stated of every block of every reachable
\* store, for a FileEntry on a directory block and a blob id on a control
\* block.
C16_AppendWholeOrNothing ==
  \A x \in Blocks(store) :
    LET s == BlobSize(store[x])
        r == IF store[x].kind = "dir" THEN SizeofFileEntry
             ELSE SizeofCtrlRecord
        rec == IF store[x].kind = "dir" THEN NewEntry(<<116>>, LastId)
               ELSE LastId
        res == IF store[x].kind = "dir" THEN AppendEntry(store, x, rec)
               ELSE AppendBlobId(store, x, rec)
    IN  IF s + r > MaxBlobSize
        THEN /\ ~AppendFits(store[x], r)
             /\ res = store
        ELSE /\ AppendFits(store[x], r)
             /\ BlobSize(res[x]) = s + r
             /\ BlobSize(res[x]) <= MaxBlobSize
             /\ \A y \in DOMAIN store : y # x => res[y] = store[y]
             /\ IF store[x].kind = "dir"
                THEN res[x] = [store[x] EXCEPT !.entries = @ \o <<rec>>]
                ELSE res[x] = [store[x] EXCEPT !.blobs = @ \o <<rec>>]

\* A create-mode fopen has returned after append_record failed on the full
\* tail of the bucket's chain and succeeded on the block chained to it, and
\* an fwrite has appended a blob id to a control block.
C16_Witness ==
  /\ last.op = "fwrite"
  /\ last.rc > 0
  /\ \E x \in Blocks(store) :
       store[x].kind = "ctrl" /\ store[x].blobs # <<>>
  /\ \E x \in Blocks(store) :
       /\ store[x].kind = "dir"
       /\ BlobSize(store[x]) + SizeofFileEntry > MaxBlobSize
       /\ store[x].next # 0
       /\ store[store[x].next].entries # <<>>
       /\ BlobSize(store[store[x].next]) <= MaxBlobSize

\* C17: a node object is deleted exactly when the last RefPtr referring to
\* it is dropped: no node was deleted while a RefPtr still referred to it,
\* none was used after its deletion, and a node is deleted if and only if
\* no RefPtr refers to it. This includes cb = ChainBlock(cb) in fwrite.
C17_NodeDeletedWithLastRef ==
  \A n \in Nodes(files, heap) :
    /\ ~n.early
    /\ ~n.uaf
    /\ n.freed <=> n.refs = 0

\* C18: every call returns with its blob handles in balance: the handles
\* it obtained with GetBlob less the handles it released are the handles
\* of the nodes of the FILEs it opened, less those of the FILEs it closed
\* (so that the handles outstanding are always those of the open FILEs,
\* and none is outstanding when every FILE is closed).
C18_HandlesReleased ==
  [][ last' # last
      => last'.got - last'.released = OpenCount(files') - OpenCount(files)
    ]_vars

\* C19: a directory head blob is created only by the first append of a
\* FileEntry to its bucket: a head blob of the store is non-empty only if
\* some block of its chain holds a FileEntry, and an fopen in must-exist
\* mode that returns null leaves every blob of the store as it was.
C19_HeadCreatedOnFirstAppend ==
  [][ /\ \A d \in Heads(store') :
           NonEmpty(store', d)
             => \E k \in DOMAIN ChainFrom(store', d) :
                  store'[ChainFrom(store', d)[k]].entries # <<>>
      /\ ( /\ Returned("fopen")
           /\ ModeAction(last'.mode) = "FileMustExist"
           /\ last'.rc = 0 )
         => store' = store ]_vars

\* C19, amended: a directory head blob is created by the first fopen, in
\* whatever mode, of a name of its bucket: a head blob becomes non-empty
\* only in an fopen of a name that hashes to it, and an fopen in must-exist
\* mode that returns null leaves next_free and every blob of the store as
\* they were, except that the head blob of the name's bucket, if it was
\* empty, now holds a zeroed DirBlock header without any FileEntry.
C19_HeadCreatedOnFirstOpen ==
  [][ /\ \A d \in Heads(store') :
           (NonEmpty(store', d) /\ ~NonEmpty(store, d))
             => (Returned("fopen") /\ d = DirIdOf[last'.name])
      /\ ( /\ Returned("fopen")
           /\ ModeAction(last'.mode) = "FileMustExist"
           /\ last'.rc = 0 )
         => LET d == DirIdOf[last'.name]
            IN  /\ g_meta'.next_free = g_meta.next_free
                /\ DOMAIN store' = DOMAIN store \cup {d}
                /\ \A id \in DOMAIN store \ {d} : store'[id] = store[id]
                /\ IF NonEmpty(store, d) THEN store'[d] = store[d]
                   ELSE store'[d] = [kind |-> "dir", prev |-> 0, next |-> 0,
                                     entries |-> <<>>] ]_vars

\* An fopen in must-exist mode has returned null for a name whose bucket
\* holds nothing but the header of its head block, in a store where another
\* bucket holds a file.
C19_Witness ==
  /\ last.op = "fopen"
  /\ ModeAction(last.mode) = "FileMustExist"
  /\ last.rc = 0
  /\ store[DirIdOf[last.name]].entries = <<>>
  /\ store[DirIdOf[last.name]].next = 0
  /\ \E d \in Heads(store) :
       NonEmpty(store, d) /\ store[d].entries # <<>>

\* C21: files are isolated: the control-block ids and data-blob ids
\* reachable from two different FileEntry records are disjoint, and an
\* fwrite that returns a byte count on a handle of one file leaves the
\* control chain and the data bytes of every other file as they were.
C21_FilesIsolated ==
  [][ /\ \A x, y \in AllEntries(store') :
           (x[1] # y[1] \/ x[2] # y[2])
             => FileIds(store', x[3].control_blob)
                  \cap FileIds(store', y[3].control_blob) = {}
      /\ (Returned("fwrite") /\ last'.rc > 0)
         => \A e \in AllEntries(store) :
              e[3].control_blob # HeadOf(store', files'[last'.h].cb)
                => FileContents(store', e[3].control_blob)
                     = FileContents(store, e[3].control_blob) ]_vars

\* An fwrite on a handle of one file has returned a byte count, in a store
\* where another file, whose FileEntry sits in another block of the same
\* bucket's chain, holds data as well.
C21_Witness ==
  /\ last.op = "fwrite"
  /\ last.rc > 0
  /\ store[files[last.h].cb].blobs # <<>>
  /\ \E e \in AllEntries(store) :
       /\ e[3].control_blob # HeadOf(store, files[last.h].cb)
       /\ \E k \in DOMAIN FileContents(store, e[3].control_blob) :
            \E j \in DOMAIN FileContents(store, e[3].control_blob)[k][3] :
              FileContents(store, e[3].control_blob)[k][3][j] # <<>>

====
